---- MODULE Spec2Model ----
(***************************************************************************)
(* scripts/sharepoint_to_json.py: one run of the SharePoint -> JSON        *)
(* snapshot pipeline (require_env, get_token, graph_get with retry and     *)
(* backoff, site -> item -> columns -> rows resolution, row normalisation, *)
(* stable sort, snapshot write) and the __main__ exit-code mapping.        *)
(*                                                                         *)
(* Python strings are sequences of code points, so that str.strip,         *)
(* str.lower, str.isdigit and the string ordering used by list.sort are    *)
(* computed as Python computes them.  Durations (seconds) are fixed-point  *)
(* integers in units of 10^-5 s, which represents every value of the       *)
(* backoff sequence exactly as a decimal.                                  *)
(***************************************************************************)
EXTENDS Integers, Sequences, FiniteSets, TLC

VARIABLES
    pc,          \* position of main(): "start","token","get","ret","exit"
    call,        \* which graph_get call is active: "none","site","item","cols","rows"
    exit_code,   \* process exit code, -1 while the run is in progress
    err,         \* the message die() logged ("" while the run is in progress)
    file,        \* content of public/data/service_stock.json (sequence of records)
    file0,       \* content of the snapshot file when the run started
    written,     \* TRUE once out_path.write_text has been executed in this run
    env,         \* os.environ: name -> PyNone (unset) or PyStr(value)
    missing,     \* the list require_env passes to die()
    overrides,   \* [sku, model, qty]: col_*_override of main()
    token,       \* the bearer returned by get_token ("" before)
    posts,       \* number of token POSTs sent
    site_id, item_id,
    col_names,   \* sequence of header strings, ordered by column index
    rows_out,    \* the accumulator of main(): sequence of row dicts
    fetched,     \* the value lists of the row pages fetched so far, in fetch order
    pages,       \* number of row pages fetched
    url,         \* the URL graph_get was called with (PyStr)
    attempt,     \* loop variable of graph_get (1..max_retries)
    backoff,     \* local of graph_get
    gets,        \* GET requests issued by the current graph_get call
    waits,       \* time.sleep calls made by the current graph_get call
    lastResp,    \* last response received by the current graph_get call
    lastWait,    \* argument of the last time.sleep of the current call (-1: none)
    ret,         \* the body the last graph_get call returned to main()
    out,         \* the mapping require_env returned to main() (name -> value)
    token_resp,  \* the exchange the token POST ended with
    bearer,      \* the token in the Authorization header of the current graph_get call
    calls,       \* number of graph_get calls main() has made
    fn,          \* the function applied on its own: "", "to_int" or "pick_col"
    arg,         \* its argument
    res,         \* its result
    done         \* TRUE once the function has returned

vars == << pc, call, exit_code, err, file, file0, written, env, missing, overrides,
           token, posts, site_id, item_id, col_names, rows_out, fetched, pages,
           url, attempt, backoff, gets, waits, lastResp, lastWait, ret,
           out, token_resp, bearer, calls, fn, arg, res, done >>

----------------------------------------------------------------------------
(* Bounds of the model *)

\* largest number of row pages upstream serves in one run
MaxPages == 2
\* largest number of rows upstream serves in one run (over all pages)
MaxRows == 2
\* longest generated text handed to to_int
MaxText == 3
\* largest number of columns of a generated table
MaxCols == 2

----------------------------------------------------------------------------
(* Python / JSON values *)

PyNone == [t |-> "none", s |-> <<>>, n |-> 0]
PyStr(s) == [t |-> "str", s |-> s, n |-> 0]
PyInt(n) == [t |-> "int", s |-> <<>>, n |-> n]
\* a float with one decimal digit, given in tenths: PyFloat(79) is 7.9
PyFloat(tenths) == [t |-> "float", s |-> <<>>, n |-> tenths]

\* truth value of a str-or-None (`if not v`, `while url`)
Truthy(v) == v.t = "str" /\ v.s # <<>>

\* dict.get(key) on a parsed JSON object: a field that is absent gives None
Get(obj, key) == IF key \in DOMAIN obj THEN obj[key] ELSE PyNone

----------------------------------------------------------------------------
(* Python str operations on code-point sequences *)

\* str.isspace for the characters of the model: \t \n \r space and U+00A0
IsSpace(c) == c \in {9, 10, 13, 32, 160}

\* str.isdigit for the characters of the model (ASCII digits)
IsDigit(c) == c \in 48..57

\* str.lower for one character: Latin A-Z and Cyrillic U+0410..U+042F
LowerChar(c) ==
    IF c \in 65..90 \/ c \in 1040..1071 THEN c + 32 ELSE c

Lower(s) == [i \in 1..Len(s) |-> LowerChar(s[i])]

RECURSIVE LStrip(_)
LStrip(s) ==
    IF s # <<>> /\ IsSpace(Head(s)) THEN LStrip(Tail(s)) ELSE s

RECURSIVE RStrip(_)
RStrip(s) ==
    IF s # <<>> /\ IsSpace(s[Len(s)]) THEN RStrip(SubSeq(s, 1, Len(s) - 1)) ELSE s

\* str.strip()
Strip(s) == RStrip(LStrip(s))

\* a < b for Python str: lexicographic by code point
RECURSIVE StrLess(_, _)
StrLess(a, b) ==
    IF b = <<>> THEN FALSE
    ELSE IF a = <<>> THEN TRUE
    ELSE IF Head(a) # Head(b) THEN Head(a) < Head(b)
    ELSE StrLess(Tail(a), Tail(b))

\* decimal digits of a natural number, as a str
RECURSIVE Digits(_)
Digits(n) ==
    IF n < 10 THEN << 48 + n >> ELSE Digits(n \div 10) \o << 48 + (n % 10) >>

\* value of a non-empty str of ASCII digits
RECURSIVE DigitsValue(_)
DigitsValue(s) ==
    IF s = <<>> THEN 0
    ELSE 10 * DigitsValue(SubSeq(s, 1, Len(s) - 1)) + (s[Len(s)] - 48)

\* str(x) for the values of the model
str(x) ==
    CASE x.t = "str" -> x.s
      [] x.t = "int" -> IF x.n < 0 THEN <<45>> \o Digits(-x.n) ELSE Digits(x.n)
      [] x.t = "float" ->
            LET a == IF x.n < 0 THEN -x.n ELSE x.n
            IN  (IF x.n < 0 THEN <<45>> ELSE <<>>)
                \o Digits(a \div 10) \o <<46>> \o Digits(a % 10)
      [] OTHER -> <<78, 111, 110, 101>>

\* int(x) for int and float: truncation toward zero
int(x) ==
    IF x.t = "int" THEN x.n
    ELSE IF x.n < 0 THEN -((-x.n) \div 10) ELSE x.n \div 10

\* int(s) succeeds on a str made of digits and '-' only: optional sign, then digits
ParsesAsInt(s) ==
    /\ s # <<>>
    /\ LET d == IF Head(s) = 45 THEN Tail(s) ELSE s
       IN  d # <<>> /\ \A i \in 1..Len(d) : IsDigit(d[i])

IntOfStr(s) ==
    IF Head(s) = 45 THEN -DigitsValue(Tail(s)) ELSE DigitsValue(s)

\* mutant of IsKept: the minus sign is not kept
IsKeptDigitsOnly(ch) == IsDigit(ch)

\* `ch.isdigit() or ch == "-"`
IsKept(ch) == IsDigit(ch) \/ ch = 45
NotBlankChar(ch) == ch # 32 /\ ch # 160

to_int(x) ==
    IF x.t = "none" THEN 0
    ELSE IF x.t \in {"int", "float"} THEN int(x)
    ELSE LET s == Strip(str(x))
         IN  IF s = <<>> THEN 0
             ELSE LET cleaned == SelectSeq(SelectSeq(s, NotBlankChar), IsKept)
                  IN  IF cleaned # <<>> /\ ParsesAsInt(cleaned)
                      THEN IntOfStr(cleaned) ELSE 0

safe_str(x) == IF x.t = "none" THEN <<>> ELSE Strip(str(x))

----------------------------------------------------------------------------
(* Row dicts, column lookup, normalisation, sort *)

\* values[i] if i < len(values) else None
Cell(values, i) == IF i <= Len(values) THEN values[i] ELSE PyNone

\* {col_names[i]: ... for i in range(len(col_names))}: a dict keeps one entry per
\* key, at the position of the key's first occurrence, with the value assigned last
MakeRow(names, values) ==
    LET last(i) == CHOOSE j \in 1..Len(names) :
                       /\ names[j] = names[i]
                       /\ \A m \in (j + 1)..Len(names) : names[m] # names[i]
        first(i) == \A j \in 1..(i - 1) : names[j] # names[i]
        F[i \in 0..Len(names)] ==
            IF i = 0 THEN <<>>
            ELSE IF first(i)
                 THEN Append(F[i - 1], [k |-> names[i], v |-> Cell(values, last(i))])
                 ELSE F[i - 1]
    IN  F[Len(names)]

\* mutant of NormKey: the key is not stripped
NormKeyNoStrip(k) == Lower(k)

\* k.strip().lower()
NormKey(k) == Lower(Strip(k))

\* norm = {k.strip().lower(): k for k in row.keys()}; norm.get(c.strip().lower()):
\* the position in row of the last key whose normal form is that of c, 0 if none
NormGet(row, c) ==
    LET hits == {j \in 1..Len(row) : NormKey(row[j].k) = NormKey(c)}
    IN  IF hits = {} THEN 0 ELSE CHOOSE j \in hits : \A m \in hits : m <= j

pick_col(row, candidates) ==
    LET found == {i \in 1..Len(candidates) : NormGet(row, candidates[i]) # 0}
    IN  IF found = {} THEN PyNone
        ELSE LET i == CHOOSE x \in found : \A y \in found : x <= y
             IN  row[NormGet(row, candidates[i])].v

\* "SKU", "Артикул", "Sku"
SkuAliases ==
    << <<83, 75, 85>>,
       <<1040, 1088, 1090, 1080, 1082, 1091, 1083>>,
       <<83, 107, 117>> >>

\* "Model", "Модель", "Наименование", "Название"
ModelAliases ==
    << <<77, 111, 100, 101, 108>>,
       <<1052, 1086, 1076, 1077, 1083, 1100>>,
       <<1053, 1072, 1080, 1084, 1077, 1085, 1086, 1074, 1072, 1085, 1080, 1077>>,
       <<1053, 1072, 1079, 1074, 1072, 1085, 1080, 1077>> >>

\* "Бронь для сервиса", "Бронь_для_сервиса", "Service reserve", "Service Reserve",
\* "Qty, pcs", "Qty", "Количество", "Кол-во"
QtyAliases ==
    << <<1041, 1088, 1086, 1085, 1100, 32, 1076, 1083, 1103, 32,
         1089, 1077, 1088, 1074, 1080, 1089, 1072>>,
       <<1041, 1088, 1086, 1085, 1100, 95, 1076, 1083, 1103, 95,
         1089, 1077, 1088, 1074, 1080, 1089, 1072>>,
       <<83, 101, 114, 118, 105, 99, 101, 32, 114, 101, 115, 101, 114, 118, 101>>,
       <<83, 101, 114, 118, 105, 99, 101, 32, 82, 101, 115, 101, 114, 118, 101>>,
       <<81, 116, 121, 44, 32, 112, 99, 115>>,
       <<81, 116, 121>>,
       <<1050, 1086, 1083, 1080, 1095, 1077, 1089, 1090, 1074, 1086>>,
       <<1050, 1086, 1083, 45, 1074, 1086>> >>

\* mutant of Candidates: the aliases are tried after the override
CandidatesFallback(override, aliases) ==
    IF override # <<>> THEN << override >> \o aliases ELSE aliases

\* [col_x_override] if col_x_override else [aliases...]
Candidates(override, aliases) ==
    IF override # <<>> THEN << override >> ELSE aliases

sku_candidates(ov) == Candidates(ov.sku, SkuAliases)
model_candidates(ov) == Candidates(ov.model, ModelAliases)
qty_candidates(ov) == Candidates(ov.qty, QtyAliases)

\* sku = safe_str(pick_col(row, sku_candidates))
ResolvedSku(row, ov) == safe_str(pick_col(row, sku_candidates(ov)))

\* mutant of Keep: the `continue` is lost
KeepAll(sku) == TRUE

\* `if not sku: continue`
Keep(sku) == sku # <<>>

\* {"SKU": sku, "Model": model, "Qty": qty}
Record(row, ov) ==
    [SKU |-> ResolvedSku(row, ov),
     Model |-> safe_str(pick_col(row, model_candidates(ov))),
     Qty |-> to_int(pick_col(row, qty_candidates(ov)))]

\* the loop `for row in rows_out: ... items.append(...)`
RECURSIVE Items(_, _)
Items(rows, ov) ==
    IF rows = <<>> THEN <<>>
    ELSE IF Keep(ResolvedSku(Head(rows), ov))
         THEN << Record(Head(rows), ov) >> \o Items(Tail(rows), ov)
         ELSE Items(Tail(rows), ov)

SkuLess(a, b) == StrLess(a.SKU, b.SKU)

\* mutant of InsertItem: x goes before the elements with an equal key
RECURSIVE InsertItemUnstable(_, _)
InsertItemUnstable(x, s) ==
    IF s = <<>> THEN << x >>
    ELSE IF ~SkuLess(Head(s), x) THEN << x >> \o s
    ELSE << Head(s) >> \o InsertItemUnstable(x, Tail(s))

\* x goes after every element whose key is not greater than its own (stable)
RECURSIVE InsertItem(_, _)
InsertItem(x, s) ==
    IF s = <<>> THEN << x >>
    ELSE IF SkuLess(x, Head(s)) THEN << x >> \o s
    ELSE << Head(s) >> \o InsertItem(x, Tail(s))

\* items.sort(key=lambda x: x["SKU"]): stable, ascending by str comparison
SortItems(items) ==
    LET F[i \in 0..Len(items)] ==
            IF i = 0 THEN <<>> ELSE InsertItem(items[i], F[i - 1])
    IN  F[Len(items)]

\* key of sorted(cols, key=lambda c: int(c.get("index", 0)))
IndexLess(a, b) == a.index < b.index

RECURSIVE InsertCol(_, _)
InsertCol(x, s) ==
    IF s = <<>> THEN << x >>
    ELSE IF IndexLess(x, Head(s)) THEN << x >> \o s
    ELSE << Head(s) >> \o InsertCol(x, Tail(s))

\* cols_sorted = sorted(cols, key=index); col_names = [c.get("name", "") ...]
ColNames(cols) ==
    LET F[i \in 0..Len(cols)] ==
            IF i = 0 THEN <<>> ELSE InsertCol(cols[i], F[i - 1])
        cs == F[Len(cols)]
    IN  [i \in 1..Len(cs) |-> cs[i].name]

----------------------------------------------------------------------------
(* graph_get: retry policy and backoff *)

max_retries == 6

Retriable == {429, 500, 502, 503, 504}

\* mutant of IsRetriable: every failure status is retried
IsRetriableAnyFailure(status) == status # 200

IsRetriable(status) == status \in Retriable

\* mutant of AttemptsRemain: the loop runs one iteration too many
AttemptsRemainOffByOne(a) == a <= max_retries

\* `for attempt in range(1, max_retries + 1)`: another iteration follows attempt a
AttemptsRemain(a) == a < max_retries

\* mutant of NextAttempt: the loop variable does not advance
NextAttemptStuck(a) == a

\* the value `range` gives the loop variable after a
NextAttempt(a) == a + 1

\* mutant of Slept: no sleep after the response to the last attempt
SleptUnlessLast(w, a) == IF a < max_retries THEN w + 1 ELSE w

\* time.sleep(wait) in iteration a, after w earlier sleeps of the call
Slept(w, a) == w + 1

\* backoff = 2.0
BackoffStart == 200000

\* the cap 30 of min(backoff * 1.8, 30)
BackoffCap == 3000000

\* mutant of NextBackoff: the cap is forgotten
NextBackoffNoCap(b) == (b * 18) \div 10

\* backoff = min(backoff * 1.8, 30)
NextBackoff(b) ==
    LET g == (b * 18) \div 10 IN IF g < BackoffCap THEN g ELSE BackoffCap

\* retry_after and retry_after.isdigit()
HintValid(h) == Truthy(h) /\ \A i \in 1..Len(h.s) : IsDigit(h.s[i])

\* mutant of WaitFor: the Retry-After header is ignored
WaitIgnoringHint(h, b) == b

\* wait = float(retry_after) if retry_after and retry_after.isdigit() else backoff
WaitFor(h, b) == IF HintValid(h) THEN DigitsValue(h.s) * 100000 ELSE b

----------------------------------------------------------------------------
(* The environment and the upstream responses a run can meet *)

\* the names main() passes to require_env, in declaration order
Mandatory ==
    << "TENANT_ID", "CLIENT_ID", "CLIENT_SECRET",
       "SP_SITE_HOSTNAME", "SP_SITE_PATH", "SP_XLSX_PATH", "SP_TABLE_NAME" >>

MandatorySet == {Mandatory[i] : i \in 1..Len(Mandatory)}

Optional == {"SP_COL_SKU", "SP_COL_MODEL", "SP_COL_QTY"}

\* every mandatory name set to "v", no override
FullEnv ==
    [n \in MandatorySet \cup Optional |->
        IF n \in MandatorySet THEN PyStr(<<118>>) ELSE PyNone]

\* environments: complete; complete with SP_COL_SKU=" Code " and
\* SP_TABLE_NAME=" v "; one mandatory name unset or blank; two mandatory names unset
EnvPool ==
    {FullEnv, [FullEnv EXCEPT !["SP_COL_SKU"] = PyStr(<<32, 67, 111, 100, 101, 32>>),
                              !["SP_TABLE_NAME"] = PyStr(<<32, 118, 32>>)]}
    \cup {[FullEnv EXCEPT ![n] = v] : n \in MandatorySet, v \in {PyNone, PyStr(<<32>>)}}
    \cup {[FullEnv EXCEPT !["TENANT_ID"] = PyNone, !["SP_TABLE_NAME"] = PyNone]}

\* os.getenv(n, "")
getenv(e, n) == IF e[n].t = "none" THEN <<>> ELSE e[n].s

\* mutant of MissingNames: the scan stops at the first missing name
FirstMissingOnly(e) ==
    LET m == SelectSeq(Mandatory, LAMBDA n : Strip(getenv(e, n)) = <<>>)
    IN  IF m = <<>> THEN <<>> ELSE << Head(m) >>

\* the list `missing` of require_env: the names n, in the order of the call's
\* arguments, for which os.getenv(n, "").strip() is empty
MissingNames(e) == SelectSeq(Mandatory, LAMBDA n : Strip(getenv(e, n)) = <<>>)

\* the dict `out` of require_env: the other names, each with its stripped value
PresentValues(e) ==
    [n \in {x \in MandatorySet : Strip(getenv(e, x)) # <<>>} |-> Strip(getenv(e, n))]

\* a JSON object with no field
EmptyObj == [k \in {} |-> PyNone]

\* an HTTP exchange: the request raised (timeout), or a response arrived with a
\* status, a Retry-After header (PyNone: absent) and a body that r.json() parses
\* (parses = TRUE) or rejects
Timeout ==
    [timeout |-> TRUE, status |-> 0, retry_after |-> PyNone, parses |-> FALSE,
     body |-> EmptyObj]
Http(status, hint) ==
    [timeout |-> FALSE, status |-> status, retry_after |-> hint, parses |-> FALSE,
     body |-> EmptyObj]
Ok(body) ==
    [timeout |-> FALSE, status |-> 200, retry_after |-> PyNone, parses |-> TRUE,
     body |-> body]

\* responses of the token endpoint
TokenResponses ==
    {Timeout, Http(200, PyNone), Http(401, PyNone), Http(429, PyNone),
     Http(503, PyStr(<<55>>)),
     Ok(EmptyObj), Ok([access_token |-> PyStr(<<>>)]),
     Ok([access_token |-> PyStr(<<116, 111, 107>>)])}

\* Retry-After headers: absent, "", "7", "0", "1.5", "-3", "Wed" (an HTTP date)
\* non-200 responses of the Graph API
ErrorResponses ==
    {Http(404, PyNone), Http(404, PyStr(<<55>>)), Http(201, PyNone),
     Http(429, PyNone), Http(429, PyStr(<<55>>)), Http(429, PyStr(<<48>>)),
     Http(500, PyNone), Http(502, PyStr(<<>>)),
     Http(503, PyStr(<<49, 46, 53>>)), Http(503, PyStr(<<45, 51>>)),
     Http(504, PyStr(<<87, 101, 100>>))}

\* column descriptor lists: (SKU 0, Qty 1) and (Model 2, " sku " 0, "Qty, pcs" 1)
ColsPool ==
    { << [name |-> <<83, 75, 85>>, index |-> 0],
         [name |-> <<81, 116, 121>>, index |-> 1] >>,
      << [name |-> <<77, 111, 100, 101, 108>>, index |-> 2],
         [name |-> <<32, 115, 107, 117, 32>>, index |-> 0],
         [name |-> <<81, 116, 121, 44, 32, 112, 99, 115>>, index |-> 1] >> }

\* a row object of the rows endpoint: {"values": [[cell, ...]]}
RowObj(cells) == [values |-> << cells >>]

\* rows with the cells ["B2", ""], ["A1", "5"], [" ", "3"], [" A1", 7.9, "Drill"]
RowPool ==
    { RowObj(<< PyStr(<<66, 50>>), PyStr(<<>>) >>),
      RowObj(<< PyStr(<<65, 49>>), PyStr(<<53>>) >>),
      RowObj(<< PyStr(<<32>>), PyStr(<<51>>) >>),
      RowObj(<< PyStr(<<32, 65, 49>>), PyFloat(79),
                PyStr(<<68, 114, 105, 108, 108>>) >>) }

\* every list of at most n rows
RowSeqs(n) == UNION {[1..k -> RowPool] : k \in 0..n}

\* next-link fields: absent (PyNone stands for "no such key"), "", a URL
NextLinks(more) ==
    {PyNone, PyStr(<<>>)} \cup (IF more THEN {PyStr(<<110, 101, 120, 116>>)} ELSE {})

RowsBody(value, link) ==
    IF link.t = "none" THEN [value |-> value]
    ELSE [value |-> value] @@ ("@odata.nextLink" :> link)

\* the 200 bodies upstream can return to the graph_get call c
Bodies(c, acc, np) ==
    CASE c = "site" -> {EmptyObj, [id |-> PyStr(<<>>)], [id |-> PyStr(<<83, 49>>)]}
      [] c = "item" -> {EmptyObj, [id |-> PyStr(<<>>)], [id |-> PyStr(<<73, 49>>)]}
      [] c = "cols" -> {EmptyObj, [value |-> <<>>]} \cup {[value |-> v] : v \in ColsPool}
      [] c = "rows" ->
            {EmptyObj} \cup
            {RowsBody(v, l) : v \in RowSeqs(MaxRows - Len(acc)),
                              l \in NextLinks(np + 1 < MaxPages)}
      [] OTHER -> {}

GetResponses(c, acc, np) ==
    {Timeout, Http(200, PyNone)} \cup ErrorResponses \cup {Ok(b) : b \in Bodies(c, acc, np)}

\* snapshot content left by an earlier run: [{"SKU": "OLD", "Model": "", "Qty": 1}]
PriorSnapshot == << [SKU |-> <<79, 76, 68>>, Model |-> <<>>, Qty |-> 1] >>

\* snapshot content left by an earlier run over the table SKU, Qty with the one
\* row ["B2", ""]: [{"SKU": "B2", "Model": "", "Qty": 0}]
EarlierSnapshot == << [SKU |-> <<66, 50>>, Model |-> <<>>, Qty |-> 0] >>

NoResp == [status |-> 0, retry_after |-> PyNone]

\* no token exchange has taken place
NoExchange ==
    [timeout |-> FALSE, status |-> 0, retry_after |-> PyNone, parses |-> FALSE,
     body |-> EmptyObj]

----------------------------------------------------------------------------
(* The run *)

\* the interpreter before main() is entered: nothing resolved, nothing sent
Idle ==
    /\ call = "none" /\ exit_code = -1 /\ err = ""
    /\ file0 = file /\ written = FALSE
    /\ missing = <<>> /\ out = <<>>
    /\ overrides = [sku |-> <<>>, model |-> <<>>, qty |-> <<>>]
    /\ token = <<>> /\ posts = 0 /\ token_resp = NoExchange
    /\ site_id = PyNone /\ item_id = PyNone
    /\ col_names = <<>> /\ rows_out = <<>> /\ fetched = <<>> /\ pages = 0
    /\ url = PyNone /\ attempt = 0 /\ backoff = 0 /\ gets = 0 /\ waits = 0
    /\ lastResp = NoResp /\ lastWait = -1
    /\ ret = EmptyObj /\ bearer = <<>> /\ calls = 0

\* one run of the script, started with some environment over the snapshot a
\* previous run left
Init ==
    /\ pc = "start"
    /\ \/ env \in EnvPool /\ file = PriorSnapshot
       \/ env = FullEnv /\ file = EarlierSnapshot
    /\ Idle
    /\ fn = "" /\ arg = PyNone /\ res = PyNone /\ done = FALSE

callVars == << call, url, attempt, backoff, gets, waits, lastResp, lastWait,
              bearer, calls >>
pureVars == << fn, arg, res, done >>
dataVars == << token, site_id, item_id, col_names, rows_out, fetched, pages >>
fileVars == << file, written >>
envVars == << env, file0, missing, overrides, posts, out, token_resp >>
exitVars == << exit_code, err >>

\* log.error(msg); raise SystemExit(code), which __main__ re-raises unchanged
die(msg, code) == pc' = "exit" /\ exit_code' = code /\ err' = msg

\* a recognised fatal condition: die(msg) with the default code
Fatal(msg) == die(msg, 2)

\* mutant of Unexpected: `code=1` is missing from the handler's die(str(e))
UnexpectedAsFatal(e) == die(e, 2)

\* an exception e other than SystemExit reaching __main__: die(str(e), code=1)
Unexpected(e) == die(e, 1)

\* main() returns: the interpreter exits with 0
Return == pc' = "exit" /\ exit_code' = 0 /\ UNCHANGED err

\* mutant of StartCall: the retry budget is shared by the calls of the run, and
\* the call starts where a call that used up one attempt stood
StartCallOnSharedBudget(c, u, tok) ==
    /\ pc' = "get" /\ call' = c /\ url' = u
    /\ bearer' = tok /\ calls' = calls + 1
    /\ attempt' = 2 /\ backoff' = NextBackoff(BackoffStart)
    /\ gets' = 0 /\ waits' = 0 /\ lastResp' = NoResp /\ lastWait' = -1
    /\ UNCHANGED exitVars

\* entry of graph_get(u, tok): the Authorization header is built from tok,
\* backoff = 2.0, attempt = 1, nothing sent yet
StartCall(c, u, tok) ==
    /\ pc' = "get" /\ call' = c /\ url' = u
    /\ bearer' = tok /\ calls' = calls + 1
    /\ attempt' = 1 /\ backoff' = BackoffStart
    /\ gets' = 0 /\ waits' = 0 /\ lastResp' = NoResp /\ lastWait' = -1
    /\ UNCHANGED exitVars

\* `return r.json()`: the locals of graph_get (and the per-call counters) are gone
EndCall ==
    attempt' = 0 /\ backoff' = 0 /\ gets' = 0 /\ waits' = 0 /\ lastWait' = -1

\* what requests.post / requests.get / r.json() raise on the exchange r ("" if nothing)
Raises(r) ==
    IF r.timeout THEN "Timeout"
    ELSE IF r.status = 200 /\ ~r.parses THEN "JSONDecodeError"
    ELSE ""

\* require_env(...) and the optional overrides
RequireEnv ==
    /\ pc = "start"
    /\ LET m == MissingNames(env)
       IN  /\ missing' = m
           /\ IF m # <<>>
              THEN Fatal("Missing required env vars") /\ UNCHANGED << overrides, out >>
              ELSE /\ out' = PresentValues(env)
                   /\ overrides' = [sku |-> Strip(getenv(env, "SP_COL_SKU")),
                                    model |-> Strip(getenv(env, "SP_COL_MODEL")),
                                    qty |-> Strip(getenv(env, "SP_COL_QTY"))]
                   /\ pc' = "token" /\ UNCHANGED exitVars
    /\ UNCHANGED << env, file0, posts, token_resp, callVars, dataVars, fileVars, ret,
                    pureVars >>

\* mutant of TokenRefused: a transient status is not refused
TokenRefusedUnlessTransient(status) == status # 200 /\ status \notin Retriable

\* `if r.status_code != 200` of get_token
TokenRefused(status) == status # 200

\* token = get_token(auth), then the call graph_get(site url, token)
GetToken ==
    /\ pc = "token"
    /\ posts' = posts + 1
    /\ \E r \in TokenResponses :
          /\ token_resp' = r
          /\ IF r.timeout
             THEN Unexpected(Raises(r)) /\ UNCHANGED << token, callVars >>
             ELSE IF TokenRefused(r.status)
             THEN Fatal("Token request failed") /\ UNCHANGED << token, callVars >>
             ELSE IF ~r.parses
             THEN Unexpected(Raises(r)) /\ UNCHANGED << token, callVars >>
             ELSE IF ~Truthy(Get(r.body, "access_token"))
             THEN Fatal("Token response missing access_token")
                  /\ UNCHANGED << token, callVars >>
             ELSE /\ token' = Get(r.body, "access_token").s
                  /\ StartCall("site", PyStr(<<115, 105, 116, 101>>),
                               Get(r.body, "access_token").s)
    /\ UNCHANGED << env, file0, missing, overrides, out, fileVars, ret,
                    site_id, item_id, col_names, rows_out, fetched, pages, pureVars >>

\* one iteration of the loop of graph_get: the GET, and what follows its response
GraphGetAttempt ==
    /\ pc = "get"
    /\ \E r \in GetResponses(call, rows_out, pages) :
          /\ lastResp' = [status |-> r.status, retry_after |-> r.retry_after]
          /\ IF r.timeout
             THEN /\ Unexpected(Raises(r))
                  /\ gets' = gets + 1
                  /\ UNCHANGED << ret, attempt, backoff, waits, lastWait >>
             ELSE IF r.status = 200
             THEN IF r.parses
                  THEN /\ ret' = r.body /\ pc' = "ret"
                       /\ EndCall /\ UNCHANGED exitVars
                  ELSE /\ Unexpected(Raises(r))
                       /\ gets' = gets + 1
                       /\ UNCHANGED << ret, attempt, backoff, waits, lastWait >>
             ELSE IF IsRetriable(r.status)
             THEN /\ gets' = gets + 1
                  /\ lastWait' = WaitFor(r.retry_after, backoff)
                  /\ waits' = Slept(waits, attempt)
                  /\ backoff' = NextBackoff(backoff)
                  /\ IF AttemptsRemain(attempt)
                     THEN attempt' = NextAttempt(attempt) /\ UNCHANGED << pc, exitVars >>
                     ELSE Fatal("Graph GET failed after retries") /\ UNCHANGED attempt
                  /\ UNCHANGED ret
             ELSE /\ Fatal("Graph GET failed")
                  /\ gets' = gets + 1
                  /\ UNCHANGED << ret, attempt, backoff, waits, lastWait >>
    /\ UNCHANGED << call, url, bearer, calls, envVars, dataVars, fileVars, pureVars >>

\* mutant of HasId: the test is for the presence of the field
HasIdField(body) == "id" \in DOMAIN body

\* `site.get("id")` / `item.get("id")` under `if not ...`
HasId(body) == Truthy(Get(body, "id"))

\* site_id = site.get("id"), then the call for the drive item
SiteResolved ==
    /\ pc = "ret" /\ call = "site"
    /\ IF ~HasId(ret)
       THEN Fatal("Could not resolve site id") /\ UNCHANGED << site_id, callVars >>
       ELSE /\ site_id' = Get(ret, "id")
            /\ StartCall("item", PyStr(<<105, 116, 101, 109>>), token)
    /\ UNCHANGED << envVars, fileVars, ret, token, item_id, col_names, rows_out,
                    fetched, pages, pureVars >>

\* item_id = item.get("id"), then the call for the table columns
ItemResolved ==
    /\ pc = "ret" /\ call = "item"
    /\ IF ~HasId(ret)
       THEN Fatal("Could not resolve drive item id") /\ UNCHANGED << item_id, callVars >>
       ELSE /\ item_id' = Get(ret, "id")
            /\ StartCall("cols", PyStr(<<99, 111, 108, 115>>), token)
    /\ UNCHANGED << envVars, fileVars, ret, token, site_id, col_names, rows_out,
                    fetched, pages, pureVars >>

\* cols_json.get("value", []), rows_json.get("value", [])
GetList(obj, key) == IF key \in DOMAIN obj THEN obj[key] ELSE <<>>

\* cols, col_names, rows_out = [], then the call for the first page of rows
ColumnsResolved ==
    /\ pc = "ret" /\ call = "cols"
    /\ LET cols == GetList(ret, "value")
       IN  IF cols = <<>>
           THEN Fatal("No columns returned")
                /\ UNCHANGED << col_names, rows_out, callVars >>
           ELSE /\ col_names' = ColNames(cols)
                /\ rows_out' = <<>>
                /\ StartCall("rows", PyStr(<<114, 111, 119, 115>>), token)
    /\ UNCHANGED << envVars, fileVars, ret, token, site_id, item_id, fetched, pages,
                    pureVars >>

\* mutant of MorePages: `while url is not None`
MorePagesWhenPresent(next) == next.t = "str"

\* `while url:`
MorePages(next) == Truthy(next)

\* mutant of Finish: the snapshot is written before the zero-rows check
FinishWritesFirst(rows) ==
    /\ file' = SortItems(Items(rows, overrides))
    /\ written' = TRUE
    /\ IF rows = <<>> THEN Fatal("Parsed 0 rows from table") ELSE Return

\* mutant of Finish: the records are merged into the content of the file
FinishMerging(rows) ==
    IF rows = <<>>
    THEN Fatal("Parsed 0 rows from table") /\ UNCHANGED fileVars
    ELSE /\ file' = SortItems(file \o Items(rows, overrides))
         /\ written' = TRUE
         /\ Return

\* what main() does once the loop over the pages has ended
Finish(rows) ==
    IF rows = <<>>
    THEN Fatal("Parsed 0 rows from table") /\ UNCHANGED fileVars
    ELSE /\ file' = SortItems(Items(rows, overrides))
         /\ written' = TRUE
         /\ Return

\* values = (r.get("values") or [[]])[0]
RowValues(r) ==
    IF "values" \in DOMAIN r /\ r["values"] # <<>> THEN r["values"][1] ELSE <<>>

\* the body of the `while url:` loop for the page just returned and, when the
\* page carries no next link, the rest of main()
PageCollected ==
    /\ pc = "ret" /\ call = "rows"
    /\ LET value == GetList(ret, "value")
           page == [i \in 1..Len(value) |-> RowValues(value[i])]
           acc == rows_out \o [i \in 1..Len(page) |-> MakeRow(col_names, page[i])]
           next == Get(ret, "@odata.nextLink")
       IN  /\ rows_out' = acc
           /\ fetched' = Append(fetched, page)
           /\ pages' = pages + 1
           /\ IF MorePages(next)
              THEN StartCall("rows", next, token) /\ UNCHANGED fileVars
              ELSE Finish(acc) /\ UNCHANGED callVars
    /\ UNCHANGED << envVars, ret, token, site_id, item_id, col_names, pureVars >>

Next ==
    \/ RequireEnv
    \/ GetToken
    \/ GraphGetAttempt
    \/ SiteResolved
    \/ ItemResolved
    \/ ColumnsResolved
    \/ PageCollected

Spec == Init /\ [][Next]_vars

\* what a step of the script always changes: where main() stands, the call it
\* is in, the iteration of graph_get, the pages fetched, the GETs sent
progress == << pc, call, attempt, pages, gets >>

\* the script has not exited and takes a step
Running ==
    /\ pc \in {"start", "token", "get", "ret"}
    /\ pc' \in {"token", "get", "ret", "exit"}
    /\ call' \in {"none", "site", "item", "cols", "rows"}
    /\ attempt' \in 0..max_retries
    /\ pages' \in {pages, pages + 1}
    /\ gets' \in {0, gets + 1}

\* the interpreter runs the one thread of the script until the process exits,
\* and every request it sends is answered or times out (requests.post and
\* requests.get are given a timeout): while the script has not exited, it
\* eventually takes a step
FairSpec == Spec /\ WF_progress(Running)

----------------------------------------------------------------------------
(* to_int and pick_col applied on their own *)

\* characters of the generated texts: "0", "1", "-", " ", U+00A0, "a"
TextChars == {48, 49, 45, 32, 160, 97}

\* every text of at most n characters
Texts(n) == UNION {[1..k -> TextChars] : k \in 0..n}

\* "1 234", "-12", "abc", " 7 "
TextExamples ==
    { <<49, 32, 50, 51, 52>>, <<45, 49, 50>>, <<97, 98, 99>>, <<32, 55, 32>> }

\* cell values handed to to_int: None, int, float, str
ToIntInputs ==
    {PyNone}
    \cup {PyInt(n) : n \in {-3, 0, 7}}
    \cup {PyFloat(n) : n \in {79, -79, 5, -5, 0, 120}}
    \cup {PyStr(t) : t \in Texts(MaxText) \cup TextExamples}

\* column headers of the generated tables: "SKU", " sku ", "АРТИКУЛ", "Model",
\* "Название", "Qty", "Qty, pcs", "Кол-во", "Code", "service reserve"
HeaderPool ==
    { <<83, 75, 85>>,
      <<32, 115, 107, 117, 32>>,
      <<1040, 1056, 1058, 1048, 1050, 1059, 1051>>,
      <<77, 111, 100, 101, 108>>,
      <<1053, 1072, 1079, 1074, 1072, 1085, 1080, 1077>>,
      <<81, 116, 121>>,
      <<81, 116, 121, 44, 32, 112, 99, 115>>,
      <<1050, 1086, 1083, 45, 1074, 1086>>,
      <<67, 111, 100, 101>>,
      <<115, 101, 114, 118, 105, 99, 101, 32, 114, 101, 115, 101, 114, 118, 101>> }

\* every list of at most n distinct headers (the columns of a table have
\* distinct names)
HeaderLists(n) ==
    UNION {{h \in [1..k -> HeaderPool] : \A i, j \in 1..k : i # j => h[i] # h[j]}
           : k \in 0..n}

\* values of SP_COL_SKU / SP_COL_MODEL / SP_COL_QTY as os.getenv(..., "") gives
\* them: sku "", " " or " code "; model "" or "Title"; qty "" or "qty"
OverridePool ==
    [sku : {<<>>, <<32>>, <<32, 99, 111, 100, 101, 32>>},
     model : {<<>>, <<84, 105, 116, 108, 101>>},
     qty : {<<>>, <<113, 116, 121>>}]

\* a table header list with the raw override values of the environment
PickInputs == [names : HeaderLists(MaxCols), raw : OverridePool]

InitPure ==
    /\ pc = "pure"
    /\ env = FullEnv
    /\ file = PriorSnapshot
    /\ Idle
    /\ res = PyNone /\ done = FALSE
    /\ \/ fn = "to_int" /\ arg \in ToIntInputs
       \/ fn = "pick_col" /\ arg \in PickInputs

runVars ==
    << pc, envVars, exitVars, fileVars, callVars, dataVars, ret >>

\* qty = to_int(x)
CallToInt ==
    /\ pc = "pure" /\ fn = "to_int" /\ ~done
    /\ res' = PyInt(to_int(arg))
    /\ done' = TRUE
    /\ UNCHANGED << fn, arg, runVars >>

\* the three pick_col calls of the items loop on the row whose cell in column i
\* holds the integer i, with the candidates main() builds from the overrides
CallPickCol ==
    /\ pc = "pure" /\ fn = "pick_col" /\ ~done
    /\ LET row == MakeRow(arg.names, [i \in 1..Len(arg.names) |-> PyInt(i)])
           ov == [sku |-> Strip(arg.raw.sku), model |-> Strip(arg.raw.model),
                  qty |-> Strip(arg.raw.qty)]
       IN  res' = [sku |-> pick_col(row, sku_candidates(ov)),
                   model |-> pick_col(row, model_candidates(ov)),
                   qty |-> pick_col(row, qty_candidates(ov))]
    /\ done' = TRUE
    /\ UNCHANGED << fn, arg, runVars >>

NextPure == CallToInt \/ CallPickCol

SpecPure == InitPure /\ [][NextPure]_vars

----------------------------------------------------------------------------
(* Properties *)

\* C1: the snapshot file is written only as the last step of a run that passed
\* every earlier step: while the run is in progress, and in every run that ends
\* with a non-zero exit code, the file holds what it held when the run started.
C1_SnapshotOnlyOnSuccess ==
    exit_code # 0 => (file = file0 /\ ~written)

\* a run that collected rows on its first page and then failed fatally
C1_Witness ==
    /\ pc = "exit" /\ exit_code = 2 /\ call = "rows"
    /\ rows_out # <<>> /\ file = file0

\* C2: within a graph_get call, the response to a GET is followed by another GET
\* iff its status is one of 429, 500, 502, 503, 504 and the attempt was not the
\* 6th; a 200 ends the call with no wait (the body is returned, or r.json()
\* raises); any other status ends the run with exit code 2, no wait, no GET.
C2_RetryExactlyOnTransient ==
    [][ (pc = "get" /\ lastResp'.status # 0) =>
          LET s == lastResp'.status
              again == pc' = "get" /\ call' = call /\ attempt' = attempt + 1
          IN  /\ again <=> (s \in {429, 500, 502, 503, 504} /\ attempt < 6)
              /\ s = 200 => /\ pc' \in {"ret", "exit"}
                            /\ pc' = "ret" => (lastWait' = -1 /\ exit_code' = -1)
                            /\ pc' = "exit" => (waits' = waits /\ exit_code' = 1)
              /\ s \notin {200, 429, 500, 502, 503, 504} =>
                    /\ pc' = "exit" /\ exit_code' = 2
                    /\ waits' = waits /\ lastWait' = lastWait
    ]_vars

\* a 404 that ended the run after two transient responses were retried
C2_Witness ==
    /\ pc = "exit" /\ exit_code = 2 /\ gets = 3 /\ waits = 2
    /\ lastResp.status = 404

\* C3: a graph_get call issues at most 6 GETs, and when the 6th response is
\* transient too the run ends with exit code 2 without a body being returned.
C3_AtMostSixGets ==
    /\ gets <= 6
    /\ (gets = 6 /\ lastResp.status \in {429, 500, 502, 503, 504}) =>
          (pc = "exit" /\ exit_code = 2 /\ err = "Graph GET failed after retries")

\* six transient responses in one call
C3_Witness ==
    /\ gets = 6 /\ lastResp.status \in {429, 500, 502, 503, 504}
    /\ pc = "exit" /\ exit_code = 2

\* the waits 2.0, 3.6, 6.48, 11.664, 20.9952, 30.0 in units of 10^-5 s
C4_Sequence == << 200000, 360000, 648000, 1166400, 2099520, 3000000 >>

\* C4: a wait that is not taken from a Retry-After hint is the n-th value of the
\* sequence 2.0, 3.6, 6.48, 11.664, 20.9952, 30.0, n being the number of the
\* attempt it follows; it never exceeds 30.0 and is never smaller than the
\* hint-free wait before it.
C4_BackoffSequence ==
    [][ (waits' = waits + 1 /\ ~HintValid(lastResp'.retry_after)) =>
          /\ lastWait' = C4_Sequence[waits']
          /\ lastWait' <= 3000000
          /\ (waits >= 1 /\ ~HintValid(lastResp.retry_after)) => lastWait' >= lastWait
    ]_vars

\* the sixth wait of a call, with no Retry-After header, is the cap
C4_Witness ==
    /\ waits = 6 /\ lastResp.retry_after = PyNone /\ lastWait = 3000000

\* C5: the wait after a transient response is the Retry-After value when the
\* header is present, non-empty and made of digits only, and the backoff value
\* of that attempt in every other case.
C5_WaitHonoursHint ==
    [][ waits' = waits + 1 =>
          LET h == lastResp'.retry_after
              digits == h.t = "str" /\ h.s # <<>>
                        /\ \A i \in 1..Len(h.s) : h.s[i] \in 48..57
          IN  IF digits
              THEN lastWait' = DigitsValue(h.s) * 100000
              ELSE lastWait' = backoff
    ]_vars

\* a hint of 7 s honoured on the third attempt, where the backoff is 6.48 s
C5_Witness ==
    /\ waits = 3 /\ lastResp.retry_after = PyStr(<<55>>) /\ lastWait = 700000

\* the value lists of all pages, in fetch order
RECURSIVE C6_Flat(_)
C6_Flat(ps) == IF ps = <<>> THEN <<>> ELSE Head(ps) \o C6_Flat(Tail(ps))

\* C6 as stated: a further page is requested iff the page just fetched contains
\* a next-link field.
C6_FollowsIffFieldPresent ==
    [][ (pc = "ret" /\ call = "rows") =>
          ((pc' = "get" /\ call' = "rows") <=> "@odata.nextLink" \in DOMAIN ret)
    ]_vars

\* C6 amended: a further page is requested iff the page just fetched contains a
\* next-link field whose value is non-empty; otherwise the collection stops at
\* that page, whatever its number of rows; the accumulator holds the rows of
\* every fetched page in fetch order before the next page is requested.
C6_FollowsIffLinkNonEmpty ==
    /\ [](/\ Len(fetched) = pages
          /\ Len(rows_out) = Len(C6_Flat(fetched))
          /\ \A i \in 1..Len(rows_out) :
                rows_out[i] = MakeRow(col_names, C6_Flat(fetched)[i]))
    /\ [][ (pc = "ret" /\ call = "rows") =>
             LET link == IF "@odata.nextLink" \in DOMAIN ret
                         THEN ret["@odata.nextLink"].s ELSE <<>>
             IN  /\ (pc' = "get" /\ call' = "rows" /\ gets' = 0 /\ url'.s = link)
                        <=> link # <<>>
                 /\ link = <<>> => pc' = "exit"
                 /\ fetched' = Append(fetched,
                        [i \in 1..Len(GetList(ret, "value")) |->
                            GetList(ret, "value")[i]["values"][1]])
       ]_vars

\* a page with no row and a next link, then a page with two rows and no link
C6_Witness ==
    /\ pc = "exit" /\ exit_code = 0 /\ pages = 2
    /\ fetched[1] = <<>> /\ Len(fetched[2]) = 2 /\ Len(rows_out) = 2

\* C7: every snapshot a run writes holds at least one record.
C7_NeverEmptySnapshot ==
    written => Len(file) >= 1

\* C8: the written snapshot holds exactly one record for each collected row
\* whose resolved SKU is non-empty and none for the other rows, whatever Model
\* and Qty are: as many records as rows with a non-empty resolved SKU, each
\* such row's record as many times as rows yield it, no record with empty SKU.
C8_RecordIffSku ==
    written =>
        LET recs == SubSeq([i \in 1..Len(rows_out) |-> Record(rows_out[i], overrides)],
                           1, Len(rows_out))
            kept == {i \in 1..Len(rows_out) : recs[i].SKU # <<>>}
        IN  /\ Len(file) = Cardinality(kept)
            /\ \A j \in 1..Len(file) : file[j].SKU # <<>>
            /\ \A i \in kept :
                  Cardinality({j \in 1..Len(file) : file[j] = recs[i]})
                      = Cardinality({j \in kept : recs[j] = recs[i]})

\* two rows collected, the one with a blank SKU dropped, the one with empty
\* Model and Qty 0 kept
C8_Witness ==
    /\ written /\ Len(rows_out) = 2 /\ Len(file) = 1
    /\ file[1].Model = <<>> /\ file[1].Qty = 0

\* C9: the written snapshot is ascending by SKU (str comparison), and records
\* with equal SKU are in the order in which their rows were collected.
C9_SortedStable ==
    written =>
        /\ \A i, j \in 1..Len(file) : i < j => ~StrLess(file[j].SKU, file[i].SKU)
        /\ LET items == Items(rows_out, overrides)
           IN  \A k \in 1..Len(file) :
                  LET same(r) == r.SKU = file[k].SKU
                  IN  SelectSeq(file, same) = SelectSeq(items, same)

\* two records with the same SKU and different Qty
C9_Witness ==
    /\ written /\ Len(file) = 2
    /\ file[1].SKU = file[2].SKU /\ file[1].Qty # file[2].Qty

\* the messages of the recognised fatal conditions
C10_Recognised ==
    {"Missing required env vars", "Token request failed",
     "Token response missing access_token", "Graph GET failed",
     "Graph GET failed after retries", "Could not resolve site id",
     "Could not resolve drive item id", "No columns returned",
     "Parsed 0 rows from table"}

\* C10: a run ends with exit code 0, 1 or 2: 0 iff the snapshot was written, 2
\* iff die() was called for a recognised fatal condition, 1 iff an exception
\* (request timeout, unparseable body) reached the top level.
C10_ExitCodes ==
    /\ exit_code \in {-1, 0, 1, 2}
    /\ pc = "exit" <=> exit_code # -1
    /\ exit_code = 0 <=> written
    /\ exit_code = 2 <=> err \in C10_Recognised
    /\ exit_code = 1 <=> err \in {"Timeout", "JSONDecodeError"}
    /\ (pc # "start" /\ missing # <<>>) => exit_code = 2
    /\ (pc = "exit" /\ gets > 0 /\ lastResp.status = 0) => exit_code = 1
    /\ (pc = "exit" /\ gets > 0 /\ lastResp.status \notin {0, 200}) => exit_code = 2
    /\ (pc = "exit" /\ call = "rows" /\ gets = 0 /\ rows_out = <<>>) => exit_code = 2

\* an unparseable 200 body of the columns request ends the run with 1
C10_Witness ==
    /\ pc = "exit" /\ exit_code = 1 /\ err = "JSONDecodeError" /\ call = "cols"

\* the value of the mandatory variable n is unset or consists of whitespace
C11_Blank(n) ==
    env[n].t = "none" \/ \A j \in 1..Len(env[n].s) : IsSpace(env[n].s[j])

\* position of the name n among the arguments of require_env
C11_Position(n) == CHOOSE i \in 1..Len(Mandatory) : Mandatory[i] = n

\* v is raw without its leading and trailing whitespace, and is not empty
C11_Trimmed(raw, v) ==
    /\ v # <<>> /\ ~IsSpace(v[1]) /\ ~IsSpace(v[Len(v)])
    /\ \E i \in 0..Len(raw) :
          /\ i + Len(v) <= Len(raw)
          /\ SubSeq(raw, i + 1, i + Len(v)) = v
          /\ \A j \in (1..i) \cup ((i + Len(v) + 1)..Len(raw)) : IsSpace(raw[j])

\* C11: once require_env has run, the list it reports holds exactly the
\* mandatory names that are unset or blank, each once and in the order of
\* declaration; if the list is not empty the run has ended with exit code 2 on
\* that one message without any token POST or GET; if it is empty, the mapping
\* returned holds all 7 names, each with its trimmed, non-empty value.
C11_FailFastOrTrimmed ==
    IF pc = "start"
    THEN missing = <<>> /\ posts = 0 /\ calls = 0
    ELSE /\ \A n \in MandatorySet :
              C11_Blank(n) <=> \E i \in 1..Len(missing) : missing[i] = n
         /\ \A i, j \in 1..Len(missing) :
              i < j => C11_Position(missing[i]) < C11_Position(missing[j])
         /\ IF missing # <<>>
            THEN /\ pc = "exit" /\ exit_code = 2
                 /\ err = "Missing required env vars"
                 /\ posts = 0 /\ calls = 0 /\ gets = 0
            ELSE /\ DOMAIN out = MandatorySet
                 /\ \A n \in MandatorySet : C11_Trimmed(env[n].s, out[n])

\* TENANT_ID and SP_TABLE_NAME are both unset: both are reported, exit code 2
C11_Witness ==
    /\ missing = << "TENANT_ID", "SP_TABLE_NAME" >>
    /\ pc = "exit" /\ exit_code = 2 /\ posts = 0

\* the token response r is a 200 whose JSON body carries a non-empty access_token
C12_HasToken(r) ==
    /\ ~r.timeout /\ r.status = 200 /\ r.parses
    /\ "access_token" \in DOMAIN r.body
    /\ r.body["access_token"].t = "str" /\ r.body["access_token"].s # <<>>

\* C12: a run that passed require_env sends one token POST and no run sends a
\* second one; a token response with a status other than 200, or a 200 whose
\* body has no access_token, ends the run with exit code 2 and no GET; every
\* graph_get call carries the access_token of that one response as its bearer.
C12_OneTokenPost ==
    /\ posts <= 1
    /\ pc \in {"start", "token"} => posts = 0 /\ calls = 0
    /\ (pc \in {"get", "ret", "exit"} /\ missing = <<>>) => posts = 1
    /\ posts = 1 =>
          /\ (/\ ~token_resp.timeout
              /\ \/ token_resp.status # 200
                 \/ token_resp.parses /\ ~C12_HasToken(token_resp))
             => (pc = "exit" /\ exit_code = 2 /\ calls = 0 /\ gets = 0)
          /\ calls > 0 =>
                /\ C12_HasToken(token_resp)
                /\ token = token_resp.body["access_token"].s
                /\ bearer = token

\* the token endpoint answered 429: exit code 2 after the one POST, no GET
C12_Witness ==
    /\ token_resp.status = 429 /\ posts = 1
    /\ pc = "exit" /\ exit_code = 2 /\ calls = 0

C13_Order == << "none", "site", "item", "cols", "rows" >>

C13_Position(c) == CHOOSE i \in 1..Len(C13_Order) : C13_Order[i] = c

\* the body b carries an id that is a non-empty string
C13_NonEmptyId(b) ==
    "id" \in DOMAIN b /\ b["id"].t = "str" /\ b["id"].s # <<>>

\* the body b carries a non-empty column list
C13_HasColumns(b) == "value" \in DOMAIN b /\ b["value"] # <<>>

\* C13: the graph_get calls of a run are made for the site, the drive item, the
\* columns and the row pages, in that order and each of the first three once;
\* the call after the site (item) call is made only when the site (item) body
\* carries a non-empty id, which becomes site_id (item_id), the first rows call
\* only when the column list is not empty; a body without the id or without
\* columns ends the run with exit code 2 and no further call; nothing happens
\* after the exit.
C13_ResolutionOrder ==
    /\ [](/\ call \in {"item", "cols", "rows"} => (site_id.t = "str" /\ site_id.s # <<>>)
          /\ call \in {"cols", "rows"} => (item_id.t = "str" /\ item_id.s # <<>>)
          /\ call = "rows" => col_names # <<>>
          /\ call \in {"site", "item", "cols"} => calls = C13_Position(call) - 1
          /\ call = "rows" => calls >= 4)
    /\ [][/\ pc # "exit"
          /\ call' # call => C13_Position(call') = C13_Position(call) + 1
          /\ calls' # calls =>
                /\ calls' = calls + 1 /\ pc' = "get"
                /\ call' = call => (call = "rows" /\ pc = "ret")
          /\ call' = "item" /\ call = "site" =>
                (pc = "ret" /\ C13_NonEmptyId(ret) /\ site_id' = ret["id"])
          /\ call' = "cols" /\ call = "item" =>
                (pc = "ret" /\ C13_NonEmptyId(ret) /\ item_id' = ret["id"])
          /\ call' = "rows" /\ call = "cols" =>
                (pc = "ret" /\ C13_HasColumns(ret) /\ Len(col_names') = Len(ret["value"]))
          /\ (/\ pc = "ret"
              /\ \/ call \in {"site", "item"} /\ ~C13_NonEmptyId(ret)
                 \/ call = "cols" /\ ~C13_HasColumns(ret))
             => (pc' = "exit" /\ exit_code' = 2 /\ calls' = calls /\ call' = call)
         ]_vars

\* the drive item response was a 200 with an empty id: exit code 2 after the
\* second call, no columns call
C13_Witness ==
    /\ err = "Could not resolve drive item id" /\ call = "item"
    /\ "id" \in DOMAIN ret /\ ret["id"].s = <<>>
    /\ pc = "exit" /\ exit_code = 2 /\ calls = 2

\* the cell text without its spaces and non-breaking spaces
C14_Unspaced(t) == SelectSeq(t, LAMBDA c : c # 32 /\ c # 160)

\* the characters the reference retains of a text: the digits, and a minus sign
\* that no retained character precedes
C14_Retained(t) ==
    LET u == C14_Unspaced(t)
        keep(i) ==
            \/ u[i] \in 48..57
            \/ u[i] = 45 /\ \A j \in 1..(i - 1) : u[j] \notin (48..57) \cup {45}
        F[i \in 0..Len(u)] ==
            IF i = 0 THEN <<>>
            ELSE IF keep(i) THEN Append(F[i - 1], u[i]) ELSE F[i - 1]
    IN  F[Len(u)]

\* numeric value truncated toward zero (x.n is in tenths for a float)
C14_Truncated(x) ==
    IF x.t = "int" THEN x.n
    ELSE CHOOSE k \in -100..100 :
            LET a == IF x.n < 0 THEN -x.n ELSE x.n
                b == IF k < 0 THEN -k ELSE k
            IN  10 * b <= a /\ a < 10 * (b + 1) /\ k * x.n >= 0

\* the reference coercion with only a leading minus sign retained
C14_Reference(x) ==
    IF x.t = "none" THEN 0
    ELSE IF x.t \in {"int", "float"} THEN C14_Truncated(x)
    ELSE LET r == C14_Retained(x.s)
         IN  IF r = <<>> \/ r = <<45>> THEN 0
             ELSE IF r[1] = 45 THEN -DigitsValue(Tail(r)) ELSE DigitsValue(r)

\* C14 as stated: to_int returns the reference coercion in which a minus sign
\* that is not leading is dropped before parsing.
C14_AgreesWithLeadingMinusReference ==
    (fn = "to_int" /\ done) => res = PyInt(C14_Reference(arg))

\* the coercion with every minus sign retained: without a digit the value is 0;
\* without a minus sign it is the number the digits spell; with one minus sign
\* placed before the first digit it is the negated number; otherwise (a minus
\* sign after a digit, or several) the text does not parse and the value is 0
C14_Coerced(x) ==
    IF x.t = "none" THEN 0
    ELSE IF x.t \in {"int", "float"} THEN C14_Truncated(x)
    ELSE LET digitPos == {i \in 1..Len(x.s) : x.s[i] \in 48..57}
             minusPos == {i \in 1..Len(x.s) : x.s[i] = 45}
             number == DigitsValue(SelectSeq(x.s, LAMBDA c : c \in 48..57))
         IN  IF digitPos = {} THEN 0
             ELSE IF minusPos = {} THEN number
             ELSE IF /\ Cardinality(minusPos) = 1
                     /\ \A m \in minusPos, d \in digitPos : m < d
                  THEN -number
             ELSE 0

\* C14 (amended): to_int gives 0 for an absent value, the value truncated toward
\* zero for a number, and for a text the integer spelled by its digits and all
\* of its minus signs once every other character is removed, 0 when that does
\* not parse: every minus sign is retained, so a minus sign after a digit, or a
\* second minus sign, makes the value 0.
C14_AgreesWithEveryMinusRetained ==
    (fn = "to_int" /\ done) => res = PyInt(C14_Coerced(arg))

\* to_int("1-0") has returned 0
C14_Witness ==
    /\ fn = "to_int" /\ done
    /\ arg = PyStr(<<49, 45, 48>>) /\ res = PyInt(0)

\* for each header of the pool, the position in each field's alias list of the
\* first alias equal to it up to case and surrounding whitespace (0: none)
C15_AliasOf(h) ==
    CASE h = <<83, 75, 85>> -> [sku |-> 1, model |-> 0, qty |-> 0]
      [] h = <<32, 115, 107, 117, 32>> -> [sku |-> 1, model |-> 0, qty |-> 0]
      [] h = <<1040, 1056, 1058, 1048, 1050, 1059, 1051>> ->
            [sku |-> 2, model |-> 0, qty |-> 0]
      [] h = <<77, 111, 100, 101, 108>> -> [sku |-> 0, model |-> 1, qty |-> 0]
      [] h = <<1053, 1072, 1079, 1074, 1072, 1085, 1080, 1077>> ->
            [sku |-> 0, model |-> 4, qty |-> 0]
      [] h = <<115, 101, 114, 118, 105, 99, 101, 32, 114, 101, 115, 101, 114, 118, 101>> ->
            [sku |-> 0, model |-> 0, qty |-> 3]
      [] h = <<81, 116, 121, 44, 32, 112, 99, 115>> -> [sku |-> 0, model |-> 0, qty |-> 5]
      [] h = <<81, 116, 121>> -> [sku |-> 0, model |-> 0, qty |-> 6]
      [] h = <<1050, 1086, 1083, 45, 1074, 1086>> -> [sku |-> 0, model |-> 0, qty |-> 8]
      [] OTHER -> [sku |-> 0, model |-> 0, qty |-> 0]

\* the raw override value holds a character that is not whitespace
C15_Set(raw) == \E i \in 1..Len(raw) : raw[i] \notin {9, 10, 13, 32, 160}

\* the cell of the last column among those of `names` selected by hit, None if
\* there is none (the cell of column i holds the integer i)
C15_LastCell(names, hit(_)) ==
    LET ps == {p \in 1..Len(names) : hit(p)}
    IN  IF ps = {} THEN PyNone
        ELSE PyInt(CHOOSE p \in ps : \A q \in ps : q <= p)

\* the value the field f resolves to through its alias list
C15_ByAlias(names, f) ==
    LET used == {C15_AliasOf(names[p])[f] : p \in 1..Len(names)} \ {0}
        first == CHOOSE a \in used : \A b \in used : a <= b
    IN  IF used = {} THEN PyNone
        ELSE C15_LastCell(names, LAMBDA p : C15_AliasOf(names[p])[f] = first)

\* C15: a field whose override is unset or blank resolves to the cell under the
\* header matched by the earliest alias of its list that matches any header,
\* compared without regard to case and surrounding whitespace (of two headers
\* matched by that alias, the later column); it is absent when no alias matches.
C15_FirstMatchingAlias ==
    (fn = "pick_col" /\ done) =>
        \A f \in {"sku", "model", "qty"} :
            ~C15_Set(arg.raw[f]) => res[f] = C15_ByAlias(arg.names, f)

\* columns "АРТИКУЛ", " sku ": the SKU is the cell of the second column, found by
\* the first alias "SKU"
C15_Witness ==
    /\ fn = "pick_col" /\ done
    /\ arg.names = << <<1040, 1056, 1058, 1048, 1050, 1059, 1051>>,
                      <<32, 115, 107, 117, 32>> >>
    /\ arg.raw.sku = <<>>
    /\ res.sku = PyInt(2) /\ res.qty = PyNone

\* the header h equals the override of field f of the pool up to case and
\* surrounding whitespace: " code " for the SKU, "Title" for the model, "qty"
\* for the quantity
C16_Named(f, h) ==
    CASE f = "sku" -> h = <<67, 111, 100, 101>>
      [] f = "model" -> FALSE
      [] f = "qty" -> h = <<81, 116, 121>>

\* C16: a field whose override is set and not blank resolves to the cell under
\* the header the override names, and is absent when no header is so named,
\* whatever aliases of the field the table carries and whatever the overrides of
\* the other two fields are.
C16_OverrideOnly ==
    (fn = "pick_col" /\ done) =>
        \A f \in {"sku", "model", "qty"} :
            C15_Set(arg.raw[f]) =>
                res[f] = C15_LastCell(arg.names, LAMBDA p : C16_Named(f, arg.names[p]))

\* columns "SKU", "Qty" with SP_COL_SKU=" code " alone: no SKU, although the
\* alias "SKU" has a column, and the quantity is found through its aliases
C16_Witness ==
    /\ fn = "pick_col" /\ done
    /\ arg.names = << <<83, 75, 85>>, <<81, 116, 121>> >>
    /\ arg.raw = [sku |-> <<32, 99, 111, 100, 101, 32>>, model |-> <<>>, qty |-> <<>>]
    /\ res.sku = PyNone /\ res.qty = PyInt(2)

\* the row dicts of the pages this run fetched, in fetch order
C17_Rows ==
    LET flat == C6_Flat(fetched)
    IN  [i \in 1..Len(flat) |-> MakeRow(col_names, flat[i])]

\* C17: the accumulator is empty when the first rows request is made, and the
\* snapshot a run has written is the sorted record list of the rows this run
\* fetched under this run's columns and overrides, whatever the file held
\* before: a run over the snapshot that the same inputs produced leaves it as it
\* was, and nothing of an unrelated earlier snapshot survives.
C17_SnapshotFromThisRunOnly ==
    /\ (call = "rows" /\ pages = 0) => rows_out = <<>>
    /\ written =>
          /\ file = SortItems(Items(C17_Rows, overrides))
          /\ file0 = PriorSnapshot => \A i \in 1..Len(file) : file[i] # PriorSnapshot[1]

\* the second of two runs over the table SKU, Qty with the one row ["B2", ""]:
\* the file held the first run's snapshot and holds the same content again
C17_Witness ==
    /\ pc = "exit" /\ exit_code = 0 /\ written
    /\ file0 = EarlierSnapshot /\ file = file0
    /\ fetched = << << << PyStr(<<66, 50>>), PyStr(<<>>) >> >> >>

\* graph_get calls that can still follow the current one when upstream serves
\* at most MaxPages row pages
C18_CallsAfter ==
    CASE call = "site" -> 2 + MaxPages
      [] call = "item" -> 1 + MaxPages
      [] call = "cols" -> MaxPages
      [] call = "rows" -> MaxPages - pages - 1
      [] OTHER -> 3 + MaxPages

\* a bound on the number of steps the run can still take: 8 for each call to
\* come (6 attempts, the return, the step that makes the call), and for the
\* current call the attempts left and its return
C18_Rank ==
    CASE pc = "exit" -> 0
      [] pc = "start" -> 8 * (3 + MaxPages) + 2
      [] pc = "token" -> 8 * (3 + MaxPages) + 1
      [] pc = "get" -> 8 * C18_CallsAfter + (max_retries - attempt + 1) + 1
      [] pc = "ret" -> 8 * C18_CallsAfter + 1

\* the run has exited or a step of the script is possible: require_env, the
\* token POST, a GET that has some outcome, or the handling of a returned body
C18_CanStep ==
    \/ pc \in {"exit", "start"}
    \/ pc = "token" /\ TokenResponses # {}
    \/ pc = "get" /\ GetResponses(call, rows_out, pages) # {}
    \/ pc = "ret" /\ call \in {"site", "item", "cols", "rows"}

\* C18: when every request is answered and upstream serves a next-link on
\* finitely many pages (at most MaxPages - 1), every run reaches its exit, with
\* code 0, 1 or 2: the run is never stuck before its exit, every step is a step
\* the fairness condition counts, and each step lowers a non-negative bound on
\* the steps left. The
\* collector has no page cap of its own: a page with a non-empty next-link is
\* always followed by the request for that link, whatever the number of pages
\* fetched and whatever the link.
C18_Terminates ==
    /\ <>(pc = "exit" /\ exit_code \in {0, 1, 2})
    /\ [](C18_CanStep /\ C18_Rank >= 0)
    /\ [][/\ C18_Rank' < C18_Rank
          /\ progress' # progress
          /\ (/\ pc = "ret" /\ call = "rows"
              /\ "@odata.nextLink" \in DOMAIN ret
              /\ ret["@odata.nextLink"].s # <<>>)
             => (pc' = "get" /\ url' = ret["@odata.nextLink"] /\ attempt' = 1)
         ]_vars

\* a run that followed a next-link and then reached its exit on the last page
\* upstream had to serve
C18_Witness ==
    /\ pc = "exit" /\ exit_code = 0
    /\ pages = MaxPages /\ url.s = <<110, 101, 120, 116>>

\* C19: every graph_get call (site, item, columns, each row page) starts at
\* attempt 1 with backoff 2.0 and no GET or wait counted, whatever the earlier
\* calls of the run used up, and issues at most 6 GETs; the run makes one call
\* each for site, item and columns and one per row page, so that a run that
\* asked for P row pages has made 3 + P calls and at most 6 * (3 + P) GETs.
C19_BudgetPerCall ==
    /\ [](/\ gets <= max_retries /\ waits <= max_retries
          /\ pc = "get" => (attempt \in 1..max_retries /\ gets = attempt - 1)
          /\ call = "none" => calls = 0
          /\ call = "site" => calls = 1
          /\ call = "item" => calls = 2
          /\ call = "cols" => calls = 3
          /\ call = "rows" =>
                calls = 3 + pages + (IF pc \in {"get", "ret"} \/ exit_code = 1
                                        \/ err \in {"Graph GET failed",
                                                    "Graph GET failed after retries"}
                                     THEN 1 ELSE 0))
    /\ [][calls' # calls =>
              /\ calls' = calls + 1
              /\ pc' = "get" /\ attempt' = 1 /\ backoff' = BackoffStart
              /\ gets' = 0 /\ waits' = 0 /\ lastWait' = -1
         ]_vars

\* the call for the second row page, the fifth call of the run, stands at
\* attempt 1 with backoff 2.0 before its first GET
C19_Witness ==
    /\ pc = "get" /\ call = "rows" /\ pages = 1 /\ calls = 5
    /\ attempt = 1 /\ backoff = 200000 /\ gets = 0 /\ waits = 0

\* C20: in a graph_get call every response with a retriable status is followed
\* by a sleep, the response to the 6th attempt included; the call whose 6
\* attempts all met a retriable status has slept 6 times when the run exits
\* with code 2, and nothing is sent after the exit.
C20_WaitAfterEveryRetriable ==
    /\ [](/\ pc = "get" => waits = gets
          /\ err = "Graph GET failed after retries" =>
                /\ pc = "exit" /\ exit_code = 2
                /\ attempt = max_retries /\ gets = max_retries
                /\ waits = max_retries /\ lastWait >= 0
                /\ lastResp.status \in Retriable)
    /\ [][/\ pc # "exit"
          /\ (pc = "get" /\ lastResp'.status \in Retriable) =>
                /\ gets' = gets + 1 /\ waits' = waits + 1 /\ lastWait' >= 0
                /\ attempt = max_retries <=>
                       (pc' = "exit" /\ err' = "Graph GET failed after retries")
                /\ attempt < max_retries => (pc' = "get" /\ attempt' = attempt + 1)
         ]_vars

\* six responses 503 without a usable hint: the sixth sleep, of 30 s, precedes
\* the exit
C20_Witness ==
    /\ err = "Graph GET failed after retries" /\ pc = "exit" /\ exit_code = 2
    /\ gets = 6 /\ waits = 6 /\ lastWait = 3000000 /\ lastResp.status = 503

====
